---- MODULE Spec2Model ----
(***************************************************************************)
(* mac-space-explorer: the directory scanner (src/src/core/scanner.rs),    *)
(* the treemap layout engine (src/src/ui/treemap.rs) and the message       *)
(* handler of the application (src/src/main.rs).                           *)
(*                                                                         *)
(* SpecScan    one caller of scan_directory and another process that adds  *)
(*             and removes immediate children of the scanned directory.    *)
(* SpecLayout  one TreeMap: its entries assigned, update_layout and        *)
(*             find_item_at called, in exact and in rounded arithmetic.    *)
(* SpecLoop    one call of update_layout, an iteration of its row loop at  *)
(*             a time.                                                     *)
(* SpecApp     the SpaceExplorer: the messages its update handles, with    *)
(*             the filesystem it scans and moves to the trash.             *)
(***************************************************************************)
EXTENDS Integers, Sequences, FiniteSets, TLC

(***************************************************************************)
(* Bounds of the model.                                                    *)
(***************************************************************************)
\* scan_directory is called at most this many times in one behaviour
MaxCalls == 2
\* the significant bits of a float when arith = "rounded"
MantBits == 4
\* a TreeMap is given at most this many entries
MaxEntries == 3
\* at most this many Scan messages are in flight
MaxPending == 1

VARIABLES
    present,    \* the immediate children of the scanned directory that exist now
    pc,         \* where the caller of scan_directory is
    listing,    \* what the build pass's directory iterator has still to yield
    entries,    \* scan_directory's local Vec<FileEntry>, returned at the end
    progress,   \* the caller's ScanProgress, borrowed mutably by scan_directory
    calls,      \* how many times scan_directory has been called
    arith,      \* the arithmetic of f32: "exact" or "rounded"
    treemap,    \* the TreeMap: its entries and rects
    lastCall,   \* the last operation on the TreeMap; again: update_layout
                \* directly after update_layout with the same bounds
    hit,        \* what the last operation returned, if it was find_item_at,
                \* and the position it was asked for
    loop,       \* the locals of a running update_layout, and where it is
    root_path,          \* SpaceExplorer.root_path
    initial_root_path,  \* SpaceExplorer.initial_root_path
    self_total_size,    \* SpaceExplorer.total_size
    largest_files,      \* SpaceExplorer.largest_files
    selected,   \* SELECTED_PATH: None or Some(path)
    pending,    \* the Scan messages of Command::perform not yet delivered
    last,       \* the message update handled last and the Command it
                \* returned, or that it panicked
    trashed     \* the paths moved to the trash

scanVars == <<present, pc, listing, entries, progress, calls>>

layoutVars == <<arith, treemap, lastCall, hit>>

appVars ==
    <<root_path, initial_root_path, self_total_size, largest_files, selected, pending,
      last, trashed>>

vars ==
    <<present, pc, listing, entries, progress, calls, arith, treemap, lastCall, hit,
      loop, root_path, initial_root_path, self_total_size, largest_files, selected,
      pending, last, trashed>>

(***************************************************************************)
(* The filesystem.  A path is the sequence of names below the scanned      *)
(* directory, so the immediate children are the paths of length 1.  What   *)
(* a path holds is fixed; which immediate children exist varies.  For the  *)
(* application the same tree is the whole filesystem: <<>> is "/", the     *)
(* only path without a parent, and a path exists until it or a directory   *)
(* above it is moved to the trash.  The symlink points to a regular file.  *)
(*   kind     "file", "dir" or "symlink" (what symlink_metadata reports)   *)
(*   len      metadata.len()                                               *)
(*   stat_ok  whether metadata() of the walk's entry succeeds              *)
(*   read_ok  for a directory, whether read_dir of it succeeds             *)
(***************************************************************************)
Disk ==
    { [path |-> <<>>,        kind |-> "dir",     len |-> 5, stat_ok |-> TRUE,  read_ok |-> TRUE],
      [path |-> <<1>>,       kind |-> "file",    len |-> 3, stat_ok |-> TRUE,  read_ok |-> TRUE],
      [path |-> <<2>>,       kind |-> "dir",     len |-> 5, stat_ok |-> TRUE,  read_ok |-> TRUE],
      [path |-> <<2, 1>>,    kind |-> "file",    len |-> 2, stat_ok |-> TRUE,  read_ok |-> TRUE],
      [path |-> <<2, 2>>,    kind |-> "dir",     len |-> 5, stat_ok |-> TRUE,  read_ok |-> TRUE],
      [path |-> <<2, 2, 1>>, kind |-> "file",    len |-> 4, stat_ok |-> TRUE,  read_ok |-> TRUE],
      [path |-> <<2, 2, 2>>, kind |-> "file",    len |-> 1, stat_ok |-> FALSE, read_ok |-> TRUE],
      [path |-> <<2, 3>>,    kind |-> "symlink", len |-> 7, stat_ok |-> TRUE,  read_ok |-> TRUE],
      [path |-> <<2, 4>>,    kind |-> "dir",     len |-> 5, stat_ok |-> TRUE,  read_ok |-> FALSE],
      [path |-> <<2, 4, 1>>, kind |-> "file",    len |-> 6, stat_ok |-> FALSE, read_ok |-> TRUE],
      [path |-> <<3>>,       kind |-> "dir",     len |-> 5, stat_ok |-> TRUE,  read_ok |-> TRUE],
      [path |-> <<4>>,       kind |-> "file",    len |-> 0, stat_ok |-> TRUE,  read_ok |-> TRUE] }
    \cup
    \* eleven files in one directory, beside a directory that outweighs them
    { [path |-> <<3, i>>, kind |-> "file", len |-> <<5, 9, 3, 7, 7, 3, 12, 3, 8, 6, 4>>[i],
       stat_ok |-> TRUE, read_ok |-> TRUE] : i \in 1..11 }
    \cup
    { [path |-> <<3, 12>>,    kind |-> "dir",  len |-> 5,  stat_ok |-> TRUE, read_ok |-> TRUE],
      [path |-> <<3, 12, 1>>, kind |-> "file", len |-> 40, stat_ok |-> TRUE, read_ok |-> TRUE] }

Paths == { n.path : n \in Disk }

Node(p) == CHOOSE n \in Disk : n.path = p

TopLevel == { p \in Paths : Len(p) = 1 }

\* read_dir(p): the paths one name below p that were not moved to the trash
ChildrenOf(p) ==
    { q \in Paths \ trashed : Len(q) = Len(p) + 1 /\ SubSeq(q, 1, Len(p)) = p }

RECURSIVE SortedSeq(_)
\* a set of paths as a sequence in ascending order of the last name
SortedSeq(S) ==
    IF S = {} THEN <<>>
    ELSE LET m == CHOOSE p \in S : \A q \in S : p[Len(p)] <= q[Len(q)]
         IN  <<m>> \o SortedSeq(S \ {m})

RECURSIVE SumSeq(_)
SumSeq(s) == IF s = <<>> THEN 0 ELSE Head(s) + SumSeq(Tail(s))

RECURSIVE Flatten(_)
Flatten(ss) == IF ss = <<>> THEN <<>> ELSE Head(ss) \o Flatten(Tail(ss))

SelectMap(s, Keep(_), F(_)) ==
    LET kept == SelectSeq(s, Keep) IN [i \in 1..Len(kept) |-> F(kept[i])]

(***************************************************************************)
(* WalkDir::new(path).into_iter().filter_map(|e| e.ok()): the root itself  *)
(* at depth 0, then depth first what lies beneath it.  A directory whose   *)
(* read_dir fails yields itself and an Err, which the filter drops.        *)
(***************************************************************************)
RECURSIVE WalkOk(_)
WalkOk(p) ==
    <<p>> \o
    ( IF Node(p).kind = "dir" /\ Node(p).read_ok
      THEN LET kids == SortedSeq(ChildrenOf(p))
           IN  Flatten([i \in 1..Len(kids) |-> WalkOk(kids[i])])
      ELSE <<>> )

StatOk(p) == Node(p).stat_ok
IsFile(p) == Node(p).kind = "file"
FileLen(p) == Node(p).len

\* get_dir_size, with a depth-1 walk: a plausible slip
get_dir_size_shallow(path) ==
    LET walked == <<path>> \o SortedSeq(ChildrenOf(path))
        stated == SelectSeq(walked, StatOk)
    IN  SumSeq(SelectMap(stated, IsFile, FileLen))

get_dir_size(path) ==
    LET stated == SelectSeq(WalkOk(path), StatOk)
    IN  SumSeq(SelectMap(stated, IsFile, FileLen))

(***************************************************************************)
(* ScanProgress and FileEntry.                                             *)
(***************************************************************************)
NoPath == <<0>>

DefaultProgress ==
    [total_files |-> 0, scanned_files |-> 0, current_path |-> NoPath, total_size |-> 0]

FileEntry(p, size) == [path |-> p, size |-> size, is_dir |-> Node(p).kind = "dir"]

(***************************************************************************)
(* scan_directory, a step at a time.                                       *)
(***************************************************************************)
\* the call and the count pass: the caller hands in a fresh ScanProgress
\* (main.rs) or the one an earlier scan filled
Call(reuse) ==
    /\ pc \in {"idle", "returned"}
    /\ calls < MaxCalls
    /\ calls' = calls + 1
    /\ entries' = <<>>
    /\ progress' = [ (IF reuse THEN progress ELSE DefaultProgress)
                       EXCEPT !.total_files = Cardinality(present),
                              !.scanned_files = 0 ]
    /\ listing' = <<>>
    /\ pc' = "counted"
    /\ UNCHANGED <<present, layoutVars, loop, appVars>>

\* the build pass opens the directory again
BeginBuild ==
    /\ pc = "counted"
    /\ listing' = SortedSeq(present)
    /\ pc' = "build"
    /\ UNCHANGED <<present, entries, progress, calls, layoutVars, loop, appVars>>

\* one iteration of the build loop
ScanEntry ==
    /\ pc = "build"
    /\ listing # <<>>
    /\ LET p == Head(listing)
           seen == [progress EXCEPT !.current_path = p,
                                    !.scanned_files = progress.scanned_files + 1]
       IN  IF p \notin present
           THEN \* entry.metadata() is an Err and unwrap() panics
                /\ progress' = seen
                /\ pc' = "panicked"
                /\ UNCHANGED <<entries, listing>>
           ELSE LET size == IF IsFile(p) THEN FileLen(p) ELSE get_dir_size(p)
                IN  /\ progress' = [seen EXCEPT !.total_size = seen.total_size + size]
                    /\ entries' = Append(entries, FileEntry(p, size))
                    /\ listing' = Tail(listing)
                    /\ pc' = "build"
    /\ UNCHANGED <<present, calls, layoutVars, loop, appVars>>

Return ==
    /\ pc = "build"
    /\ listing = <<>>
    /\ pc' = "returned"
    /\ UNCHANGED <<present, listing, entries, progress, calls, layoutVars, loop, appVars>>

\* another process creates or removes an immediate child
AddChild(p) ==
    /\ pc # "panicked"
    /\ p \in TopLevel \ present
    /\ present' = present \cup {p}
    /\ UNCHANGED <<pc, listing, entries, progress, calls, layoutVars, loop, appVars>>

RemoveChild(p) ==
    /\ pc # "panicked"
    /\ p \in present
    /\ present' = present \ {p}
    /\ UNCHANGED <<pc, listing, entries, progress, calls, layoutVars, loop, appVars>>

ScanNext ==
    \/ \E reuse \in BOOLEAN : Call(reuse)
    \/ BeginBuild
    \/ ScanEntry
    \/ Return
    \/ \E p \in TopLevel : AddChild(p)
    \/ \E p \in TopLevel : RemoveChild(p)


(***************************************************************************)
(* f32.  A value is <<n, d>>: the rational n/d in lowest terms with d > 0, *)
(* or NaN (<<0, 0>>), or an infinity (<<1, 0>>, <<-1, 0>>).  Every f32     *)
(* operation is the exact operation followed by Fl, the rounding to the    *)
(* nearest representable value, ties to even.  arith says which floats     *)
(* are representable: every rational ("exact"), or those of MantBits       *)
(* significant bits ("rounded"; f32 has 24, and no exponent limit is       *)
(* modelled).                                                              *)
(***************************************************************************)
RECURSIVE Gcd(_, _)
Gcd(a, b) == IF b = 0 THEN a ELSE Gcd(b, a % b)

Abs(n) == IF n < 0 THEN -n ELSE n
Sign(n) == IF n < 0 THEN -1 ELSE IF n > 0 THEN 1 ELSE 0

NaN == <<0, 0>>
IsNaN(a) == a = NaN
IsFinite(a) == a[2] # 0

\* n/d for integers n and d, d possibly 0 or negative
Ratio(n, d) ==
    IF d = 0 THEN <<Sign(n), 0>>
    ELSE LET g == Gcd(Abs(n), Abs(d))
         IN  <<(Sign(d) * n) \div g, Abs(d) \div g>>

Num(n) == <<n, 1>>

RECURSIVE RoundPos(_, _, _)
\* the positive rational a/d rounded to bits significant bits
RoundPos(a, d, bits) ==
    IF a >= d * (2 ^ bits)
    THEN LET r == RoundPos(a, 2 * d, bits) IN Ratio(2 * r[1], r[2])
    ELSE IF a < d * (2 ^ (bits - 1))
    THEN LET r == RoundPos(2 * a, d, bits) IN Ratio(r[1], 2 * r[2])
    ELSE LET q == a \div d
             r == a % d
         IN  IF 2 * r > d \/ (2 * r = d /\ q % 2 = 1) THEN Num(q + 1) ELSE Num(q)

Fl(a) ==
    IF arith = "exact" \/ ~IsFinite(a) \/ a[1] = 0 THEN a
    ELSE LET r == RoundPos(Abs(a[1]), a[2], MantBits)
         IN  <<Sign(a[1]) * r[1], r[2]>>

\* the comparisons of f32: all false when an operand is NaN
FLt(a, b) ==
    /\ ~IsNaN(a) /\ ~IsNaN(b)
    /\ IF IsFinite(a) /\ IsFinite(b) THEN a[1] * b[2] < b[1] * a[2]
       ELSE IF IsFinite(a) THEN b[1] > 0
       ELSE IF IsFinite(b) THEN a[1] < 0
       ELSE a[1] < b[1]
FGt(a, b) == FLt(b, a)
FEq(a, b) == ~IsNaN(a) /\ ~IsNaN(b) /\ a = b
FLe(a, b) == FLt(a, b) \/ FEq(a, b)
FGe(a, b) == FLe(b, a)

FAdd(a, b) ==
    IF IsNaN(a) \/ IsNaN(b) THEN NaN
    ELSE IF IsFinite(a) /\ IsFinite(b)
    THEN Fl(Ratio(a[1] * b[2] + b[1] * a[2], a[2] * b[2]))
    ELSE IF IsFinite(a) THEN b
    ELSE IF IsFinite(b) \/ a = b THEN a
    ELSE NaN
FNeg(a) == <<-a[1], a[2]>>
FSub(a, b) == FAdd(a, FNeg(b))
FMul(a, b) ==
    IF IsNaN(a) \/ IsNaN(b) THEN NaN
    ELSE IF IsFinite(a) /\ IsFinite(b) THEN Fl(Ratio(a[1] * b[1], a[2] * b[2]))
    ELSE <<Sign(a[1]) * Sign(b[1]), 0>>
FDiv(a, b) ==
    IF IsNaN(a) \/ IsNaN(b) THEN NaN
    ELSE IF IsFinite(a) /\ IsFinite(b) THEN Fl(Ratio(a[1] * b[2], a[2] * b[1]))
    ELSE IF IsFinite(b) THEN <<a[1] * (IF b[1] < 0 THEN -1 ELSE 1), 0>>
    ELSE IF IsFinite(a) THEN Num(0)
    ELSE NaN
\* f32::min and f32::max: the other operand when one is NaN
FMin(a, b) == IF IsNaN(a) THEN b ELSE IF IsNaN(b) THEN a ELSE IF FLt(b, a) THEN b ELSE a
FMax(a, b) == IF IsNaN(a) THEN b ELSE IF IsNaN(b) THEN a ELSE IF FLt(a, b) THEN b ELSE a

\* a is a value of the f32 type
IsF32(a) == Fl(a) = a

\* n as f32, for a u64 n
AsF32(n) == Fl(Num(n))

(***************************************************************************)
(* The treemap: TreeMap, ItemRect, update_layout, calculate_row and        *)
(* find_item_at of src/src/ui/treemap.rs.                                  *)
(***************************************************************************)
Rectangle(x, y, width, height) ==
    [x |-> Num(x), y |-> Num(y), width |-> Num(width), height |-> Num(height)]

Point(x, y) == [x |-> x, y |-> y]

ItemRect(entry, bounds) == [entry |-> entry, bounds |-> bounds]

\* TreeMap::new
TreeMapNew == [entries |-> <<>>, rects |-> <<>>]

\* entries.iter().map(|e| e.size).sum::<u64>()
SizeSum(es) == SumSeq([i \in 1..Len(es) |-> es[i].size])

RECURSIVE InsertBySize_unstable(_, _)
\* e put before the entries of its own size: a sort that is not stable
InsertBySize_unstable(sorted, e) ==
    IF sorted = <<>> THEN <<e>>
    ELSE IF Head(sorted).size > e.size
    THEN <<Head(sorted)>> \o InsertBySize_unstable(Tail(sorted), e)
    ELSE <<e>> \o sorted

RECURSIVE InsertBySize(_, _)
\* e put behind every entry that is not smaller
InsertBySize(sorted, e) ==
    IF sorted = <<>> THEN <<e>>
    ELSE IF Head(sorted).size >= e.size
    THEN <<Head(sorted)>> \o InsertBySize(Tail(sorted), e)
    ELSE <<e>> \o sorted

RECURSIVE SortDescending(_)
\* sort_by(|a, b| b.size.cmp(&a.size)): descending and stable
SortDescending(es) ==
    IF es = <<>> THEN <<>>
    ELSE InsertBySize(SortDescending(SubSeq(es, 1, Len(es) - 1)), es[Len(es)])

\* the row is closed when it would be taller than wide
AspectRatio(new_row_size, total_size, bounds) ==
    FDiv(bounds.width, FMul(FDiv(new_row_size, total_size), bounds.height))

RECURSIVE RowLoop_strict(_, _, _, _, _, _)
\* the while loop that tests the first candidate like the others: a
\* plausible slip
RowLoop_strict(es, bounds, total_size, row, row_size, i) ==
    IF i > Len(es) THEN [row |-> row, rest |-> <<>>]
    ELSE LET size == AsF32(es[i].size)
             new_row_size == FAdd(row_size, size)
             aspect_ratio == AspectRatio(new_row_size, total_size, bounds)
         IN  IF FLt(aspect_ratio, Num(1))
             THEN [row |-> row, rest |-> SubSeq(es, i, Len(es))]
             ELSE RowLoop_strict(es, bounds, total_size, Append(row, es[i]),
                                 new_row_size, i + 1)

RECURSIVE RowLoop(_, _, _, _, _, _)
\* the while loop of calculate_row; i counts from 1
RowLoop(es, bounds, total_size, row, row_size, i) ==
    IF i > Len(es) THEN [row |-> row, rest |-> <<>>]
    ELSE LET size == AsF32(es[i].size)
             new_row_size == FAdd(row_size, size)
             aspect_ratio == AspectRatio(new_row_size, total_size, bounds)
         IN  IF row # <<>> /\ FLt(aspect_ratio, Num(1))
             THEN [row |-> row, rest |-> SubSeq(es, i, Len(es))]
             ELSE RowLoop(es, bounds, total_size, Append(row, es[i]), new_row_size, i + 1)

calculate_row_strict(es, bounds, total_size) ==
    IF es = <<>> THEN [row |-> <<>>, rest |-> <<>>]
    ELSE RowLoop_strict(es, bounds, total_size, <<>>, Num(0), 1)

calculate_row(es, bounds, total_size) ==
    IF es = <<>> THEN [row |-> <<>>, rest |-> <<>>]
    ELSE RowLoop(es, bounds, total_size, <<>>, Num(0), 1)

\* the row height taken from what is left of the rectangle: a plausible slip
RowHeight_of_remaining(row_size, total_size, bounds, remaining_area) ==
    FMin(FMul(FDiv(AsF32(row_size), total_size), remaining_area.height),
         remaining_area.height)

RowHeight(row_size, total_size, bounds, remaining_area) ==
    FMin(FMul(FDiv(AsF32(row_size), total_size), bounds.height), remaining_area.height)

\* the member width taken from the height: a plausible slip
MemberWidth_of_height(entry, row_size, remaining_area) ==
    FMax(FMul(FDiv(AsF32(entry.size), AsF32(row_size)), remaining_area.height), Num(0))

MemberWidth(entry, row_size, remaining_area) ==
    FMax(FMul(FDiv(AsF32(entry.size), AsF32(row_size)), remaining_area.width), Num(0))

RECURSIVE PlaceRow(_, _, _, _, _, _)
\* for entry in row
PlaceRow(row, row_size, remaining_area, row_height, x, rects) ==
    IF row = <<>> THEN rects
    ELSE LET entry == Head(row)
             width == MemberWidth(entry, row_size, remaining_area)
         IN  IF FGt(width, Num(0))
             THEN PlaceRow(Tail(row), row_size, remaining_area, row_height,
                           FAdd(x, width),
                           Append(rects, ItemRect(entry,
                               [x |-> x, y |-> remaining_area.y,
                                width |-> width, height |-> row_height])))
             ELSE PlaceRow(Tail(row), row_size, remaining_area, row_height, x, rects)

RECURSIVE LayoutLoop(_, _, _, _, _)
\* the while loop of update_layout
LayoutLoop(remaining_entries, remaining_area, total_size, bounds, rects) ==
    IF /\ remaining_entries # <<>>
       /\ FGt(remaining_area.height, Num(0))
       /\ FGt(remaining_area.width, Num(0))
    THEN LET remaining_size == AsF32(SizeSum(remaining_entries))
             cr == calculate_row(remaining_entries, remaining_area, remaining_size)
         IN  IF cr.row # <<>>
             THEN LET row_size == SizeSum(cr.row)
                      row_height == RowHeight(row_size, total_size, bounds, remaining_area)
                      placed == PlaceRow(cr.row, row_size, remaining_area, row_height,
                                         remaining_area.x, rects)
                      area == [remaining_area EXCEPT
                                  !.y = FAdd(remaining_area.y, row_height),
                                  !.height = FSub(remaining_area.height, row_height)]
                  IN  LayoutLoop(cr.rest, area, total_size, bounds, placed)
             ELSE LayoutLoop(cr.rest, remaining_area, total_size, bounds, rects)
    ELSE rects

\* update_layout that forgets rects.clear()
update_layout_no_clear(self, bounds) ==
    IF self.entries = <<>> THEN self
    ELSE LET total_size == AsF32(SizeSum(self.entries))
         IN  IF FEq(total_size, Num(0)) THEN self
             ELSE [self EXCEPT !.rects =
                      LayoutLoop(SortDescending(self.entries), bounds, total_size,
                                 bounds, self.rects)]

\* the TreeMap after self.update_layout(bounds)
update_layout(self, bounds) ==
    IF self.entries = <<>> THEN self
    ELSE LET total_size == AsF32(SizeSum(self.entries))
         IN  IF FEq(total_size, Num(0)) THEN [self EXCEPT !.rects = <<>>]
             ELSE [self EXCEPT !.rects =
                      LayoutLoop(SortDescending(self.entries), bounds, total_size,
                                 bounds, <<>>)]

\* the closure of find_item_at: edges included
Contains(item, position) ==
    LET bounds == item.bounds
    IN  /\ FGe(position.x, bounds.x)
        /\ FLe(position.x, FAdd(bounds.x, bounds.width))
        /\ FGe(position.y, bounds.y)
        /\ FLe(position.y, FAdd(bounds.y, bounds.height))

RECURSIVE Find(_, _)
\* Iterator::find: <<item>> for Some(item), <<>> for None
Find(items, position) ==
    IF items = <<>> THEN <<>>
    ELSE IF Contains(Head(items), position) THEN <<Head(items)>>
    ELSE Find(Tail(items), position)

find_item_at(self, position) == Find(self.rects, position)

(***************************************************************************)
(* The operations on one TreeMap.  main.rs builds a TreeMap with           *)
(* TreeMap::new, assigns its entries and calls update_layout; the canvas   *)
(* then calls find_item_at.  entries and rects are public fields and       *)
(* update_layout a public method, so entries may also be assigned to a     *)
(* TreeMap that was laid out before.                                       *)
(***************************************************************************)
\* the entry lists of up to MaxEntries entries with a size of Sizes, entry i
\* having path <<i>>
EntryOf(i, size) == [path |-> <<i>>, size |-> size, is_dir |-> FALSE]

Sizes == {0, 1, 3, 16}

SizeLists == UNION { [1..n -> Sizes] : n \in 0..MaxEntries }

\* files of 600, 300 and 100 bytes
Scenario == <<600, 300, 100>>

EntryLists ==
    { [i \in 1..Len(sz) |-> EntryOf(i, sz[i])] : sz \in SizeLists \cup {Scenario} }

\* what is assigned to the entries of a TreeMap that holds rectangles already
Reassigned ==
    { <<>>, <<EntryOf(1, 0)>>, <<EntryOf(1, 2), EntryOf(2, 1)>> }

BoundsSet ==
    { Rectangle(0, 0, 8, 4), Rectangle(0, 0, 4, 8), Rectangle(1, 2, 6, 6),
      Rectangle(0, 0, 1000, 100), Rectangle(0, 0, 0, 4), Rectangle(0, 0, 4, -2) }

NoBounds == Rectangle(0, 0, 0, 0)

\* the centre of a rectangle, computed in f32
Centre(bounds) ==
    Point(FAdd(bounds.x, FDiv(bounds.width, Num(2))),
          FAdd(bounds.y, FDiv(bounds.height, Num(2))))

Probes ==
    { Point(Num(0), Num(0)), Point(Num(4), Num(4)), Point(Num(8), Num(4)),
      Point(Num(-1), Num(1)), Point(Num(3), Num(9)) }

NoHit == [position |-> Point(Num(0), Num(0)), found |-> <<>>]

\* self.treemap = TreeMap::new(..)
New ==
    /\ treemap' = TreeMapNew
    /\ lastCall' = [op |-> "new", bounds |-> NoBounds, again |-> FALSE]
    /\ hit' = NoHit
    /\ UNCHANGED <<arith, scanVars, loop, appVars>>

\* self.treemap.entries = entries
SetEntries(es) ==
    /\ treemap.rects = <<>> \/ es \in Reassigned
    /\ treemap' = [treemap EXCEPT !.entries = es]
    /\ lastCall' = [op |-> "set_entries", bounds |-> NoBounds, again |-> FALSE]
    /\ hit' = NoHit
    /\ UNCHANGED <<arith, scanVars, loop, appVars>>

\* self.treemap.update_layout(bounds)
UpdateLayout(bounds) ==
    /\ IsF32(bounds.x) /\ IsF32(bounds.y) /\ IsF32(bounds.width) /\ IsF32(bounds.height)
    /\ treemap' = update_layout(treemap, bounds)
    /\ lastCall' = [op |-> "update_layout", bounds |-> bounds,
                    again |-> lastCall.op = "update_layout" /\ lastCall.bounds = bounds]
    /\ hit' = NoHit
    /\ UNCHANGED <<arith, scanVars, loop, appVars>>

\* self.find_item_at(position)
FindItemAt(position) ==
    /\ hit' = [position |-> position, found |-> find_item_at(treemap, position)]
    /\ lastCall' = [op |-> "find_item_at", bounds |-> NoBounds, again |-> FALSE]
    /\ UNCHANGED <<arith, treemap, scanVars, loop, appVars>>

LayoutNext ==
    \/ New
    \/ \E es \in EntryLists \cup Reassigned : SetEntries(es)
    \/ \E bounds \in BoundsSet : UpdateLayout(bounds)
    \/ \E position \in Probes : FindItemAt(position)
    \/ \E i \in 1..Len(treemap.rects) : FindItemAt(Centre(treemap.rects[i].bounds))

(***************************************************************************)
(* update_layout an iteration of its while loop at a time, on a TreeMap    *)
(* that TreeMap::new made.  loop holds the locals of the call, and how     *)
(* many iterations of the while loop it has run.                           *)
(***************************************************************************)
\* no call of update_layout is running
NoLoop == [pc |-> "idle"]

\* the condition of the while loop
LoopCond(l) ==
    /\ l.remaining_entries # <<>>
    /\ FGt(l.remaining_area.height, Num(0))
    /\ FGt(l.remaining_area.width, Num(0))

\* the call, up to the while loop: the early returns, the total and the sort
LoopCall(es, bounds) ==
    /\ loop.pc = "idle"
    /\ IsF32(bounds.x) /\ IsF32(bounds.y) /\ IsF32(bounds.width) /\ IsF32(bounds.height)
    /\ LET total_size == AsF32(SizeSum(es))
           returns == es = <<>> \/ FEq(total_size, Num(0))
       IN  loop' = [pc |-> IF returns THEN "done" ELSE "loop",
                    entries |-> es,
                    bounds |-> bounds,
                    total_size |-> total_size,
                    remaining_entries |-> IF returns THEN <<>> ELSE SortDescending(es),
                    remaining_area |-> bounds,
                    rects |-> <<>>,
                    iterations |-> 0]
    /\ UNCHANGED <<scanVars, layoutVars, appVars>>

\* one iteration of the while loop
RowStep ==
    /\ loop.pc = "loop"
    /\ LoopCond(loop)
    /\ LET remaining_area == loop.remaining_area
           remaining_size == AsF32(SizeSum(loop.remaining_entries))
           cr == calculate_row(loop.remaining_entries, remaining_area, remaining_size)
           row_size == SizeSum(cr.row)
           row_height == RowHeight(row_size, loop.total_size, loop.bounds, remaining_area)
       IN  loop' = IF cr.row # <<>>
                   THEN [loop EXCEPT
                           !.rects = PlaceRow(cr.row, row_size, remaining_area, row_height,
                                              remaining_area.x, loop.rects),
                           !.remaining_area =
                               [remaining_area EXCEPT
                                   !.y = FAdd(remaining_area.y, row_height),
                                   !.height = FSub(remaining_area.height, row_height)],
                           !.remaining_entries = cr.rest,
                           !.iterations = loop.iterations + 1]
                   ELSE [loop EXCEPT !.remaining_entries = cr.rest,
                                     !.iterations = loop.iterations + 1]
    /\ UNCHANGED <<scanVars, layoutVars, appVars>>

\* the while loop is left and update_layout returns
LoopExit ==
    /\ loop.pc = "loop"
    /\ ~LoopCond(loop)
    /\ loop' = [loop EXCEPT !.pc = "done"]
    /\ UNCHANGED <<scanVars, layoutVars, appVars>>

LoopNext ==
    \/ \E es \in EntryLists, bounds \in BoundsSet : LoopCall(es, bounds)
    \/ RowStep
    \/ LoopExit

(***************************************************************************)
(* The application: SpaceExplorer::update of src/src/main.rs, one action   *)
(* per message that the view sends.  update runs to its end before the     *)
(* next message is taken, and here nothing else touches the filesystem     *)
(* while it runs (SpecScan is where it does).  A Command of Scan is a      *)
(* message in flight: other messages may be handled before it arrives.     *)
(* The fields that no handler reads (scanning, scan_progress, filter_age,  *)
(* filter_size, TreeMap.current_path) are left out.                        *)
(***************************************************************************)
\* Option<T>
None == <<>>
Some(x) == <<x>>

\* path.exists()
Exists(p) == \A k \in 0..Len(p) : SubSeq(p, 1, k) \notin trashed

\* path.is_dir()
PathIsDir(p) == Exists(p) /\ Node(p).kind = "dir"

\* path.parent()
Parent(p) == IF p = <<>> THEN None ELSE Some(SubSeq(p, 1, Len(p) - 1))

\* the rectangles of the canvas and the buttons of the largest-files panel
\* that are clicked, counted from the first
ClickedRects == 1..3
ClickedButtons == 1..2

\* dirs::home_dir()
Home == <<2>>

\* the paths that trash::delete succeeds for
Trashable == { <<2, 1>>, <<3, 7>>, <<3, 12>> }

\* the directories the folder dialog is answered with
Folders == { <<>>, <<2>>, <<3>> }

\* entry.metadata().unwrap() panics for a child that cannot be stat'ed
ScanPanics(path) ==
    Node(path).read_ok /\ \E q \in ChildrenOf(path) : ~StatOk(q)

\* the Vec<FileEntry> that scan_directory(path, ..) returns
scan_directory(path) ==
    LET kids == IF Node(path).read_ok THEN SortedSeq(ChildrenOf(path)) ELSE <<>>
    IN  [i \in 1..Len(kids) |->
            FileEntry(kids[i], IF IsFile(kids[i]) THEN FileLen(kids[i])
                               ELSE get_dir_size(kids[i]))]

\* .take(n)
Take(s, n) == SubSeq(s, 1, IF n < Len(s) THEN n ELSE Len(s))

LargestCount == 10

\* the largest files with the directories left in: a plausible slip
LargestFiles_with_dirs(scanned) ==
    Take(SortDescending(scanned), LargestCount)

\* filter(|e| !e.is_dir), sort_by(|a, b| b.size.cmp(&a.size)), take(10)
LargestFiles(scanned) ==
    Take(SortDescending(SelectSeq(scanned, LAMBDA e : ~e.is_dir)), LargestCount)

\* the Rectangle that Message::Scan lays the treemap out in
LayoutBounds == Rectangle(0, 0, 1000, 800)

Handled(msg, cmd) == [msg |-> msg, cmd |-> cmd]

\* what a click on the canvas at the centre of rectangle i selects:
\* Message::Select(Some(path)) of TreeMap's canvas::Program::update
Clicked(i) ==
    LET found == find_item_at(treemap, Centre(treemap.rects[i].bounds))
    IN  IF found = <<>> THEN None ELSE Some(found[1].entry.path)

\* the Message::Select(Some(path)) of button i of the largest-files panel
Listed(i) == Some(largest_files[i].path)

\* Message::SelectFolder; choice is what the dialog returns
SelectFolder(choice) ==
    /\ last.cmd # "panic"
    /\ IF choice # None
       THEN /\ PathIsDir(choice[1])
            /\ pending < MaxPending
            /\ root_path' = choice[1]
            /\ initial_root_path' = choice[1]
            /\ treemap' = TreeMapNew
            /\ pending' = pending + 1
            /\ last' = Handled("SelectFolder", "scan")
       ELSE /\ last' = Handled("SelectFolder", "none")
            /\ UNCHANGED <<root_path, initial_root_path, treemap, pending>>
    /\ UNCHANGED <<self_total_size, largest_files, selected, trashed>>
    /\ UNCHANGED <<arith, lastCall, hit, loop, scanVars>>

\* Message::Scan, from the Scan button or delivered from a Command
Scan(delivered) ==
    /\ last.cmd # "panic"
    /\ delivered => pending > 0
    /\ pending' = IF delivered THEN pending - 1 ELSE pending
    /\ IF ~Exists(root_path)
       THEN /\ last' = Handled("Scan", "none")
            /\ UNCHANGED <<treemap, self_total_size, largest_files>>
       ELSE IF ScanPanics(root_path)
       THEN /\ last' = Handled("Scan", "panic")
            /\ UNCHANGED <<treemap, self_total_size, largest_files>>
       ELSE LET scanned == scan_directory(root_path)
            IN  /\ largest_files' = LargestFiles(scanned)
                /\ treemap' = update_layout([TreeMapNew EXCEPT !.entries = scanned],
                                            LayoutBounds)
                /\ self_total_size' = SizeSum(scanned)
                /\ last' = Handled("Scan", "none")
    /\ UNCHANGED <<root_path, initial_root_path, selected, trashed>>
    /\ UNCHANGED <<arith, lastCall, hit, loop, scanVars>>

\* Message::Select(path)
Select(path) ==
    /\ last.cmd # "panic"
    /\ selected' = path
    /\ last' = Handled("Select", "none")
    /\ UNCHANGED <<root_path, initial_root_path, treemap, self_total_size, largest_files,
                   pending, trashed>>
    /\ UNCHANGED <<arith, lastCall, hit, loop, scanVars>>

\* a left click on rectangle i of the canvas
CanvasClick(i) ==
    /\ i <= Len(treemap.rects)
    /\ Clicked(i) # None
    /\ Select(Clicked(i))

\* a press of button i of the largest-files panel; the selected entry is shown
\* without a button
ListClick(i) ==
    /\ i <= Len(largest_files)
    /\ selected # Listed(i)
    /\ Select(Listed(i))

\* Message::DrillDown
DrillDown ==
    /\ last.cmd # "panic"
    /\ LET path_to_drill == SelectSeq(selected, PathIsDir)
       IN  IF path_to_drill # None
           THEN /\ pending < MaxPending
                /\ root_path' = path_to_drill[1]
                /\ treemap' = TreeMapNew
                /\ pending' = pending + 1
                /\ last' = Handled("DrillDown", "scan")
           ELSE /\ last' = Handled("DrillDown", "none")
                /\ UNCHANGED <<root_path, treemap, pending>>
    /\ UNCHANGED <<initial_root_path, self_total_size, largest_files, selected, trashed>>
    /\ UNCHANGED <<arith, lastCall, hit, loop, scanVars>>

\* DrillUp without the check against initial_root_path: a plausible slip
DrillUp_unchecked ==
    /\ last.cmd # "panic"
    /\ selected' = None
    /\ LET parent == Parent(root_path)
       IN  IF parent # None
           THEN /\ pending < MaxPending
                /\ root_path' = parent[1]
                /\ treemap' = TreeMapNew
                /\ pending' = pending + 1
                /\ last' = Handled("DrillUp", "scan")
           ELSE /\ last' = Handled("DrillUp", "none")
                /\ UNCHANGED <<root_path, treemap, pending>>
    /\ UNCHANGED <<initial_root_path, self_total_size, largest_files, trashed>>
    /\ UNCHANGED <<arith, lastCall, hit, loop, scanVars>>

\* Message::DrillUp
DrillUp ==
    /\ last.cmd # "panic"
    /\ selected' = None
    /\ LET parent == Parent(root_path)
       IN  IF parent # None /\ root_path # initial_root_path
           THEN /\ pending < MaxPending
                /\ root_path' = parent[1]
                /\ treemap' = TreeMapNew
                /\ pending' = pending + 1
                /\ last' = Handled("DrillUp", "scan")
           ELSE /\ last' = Handled("DrillUp", "none")
                /\ UNCHANGED <<root_path, treemap, pending>>
    /\ UNCHANGED <<initial_root_path, self_total_size, largest_files, trashed>>
    /\ UNCHANGED <<arith, lastCall, hit, loop, scanVars>>

\* Message::OpenInFinder and Message::OpenInExplorer: the selected path is
\* handed to the system, the application's state stays
Open(msg) ==
    /\ last.cmd # "panic"
    /\ last' = Handled(msg, "none")
    /\ UNCHANGED <<root_path, initial_root_path, treemap, self_total_size, largest_files,
                   selected, pending, trashed>>
    /\ UNCHANGED <<arith, lastCall, hit, loop, scanVars>>

\* Message::Delete; confirm is the answer to the dialog, ok that trash::delete
\* succeeds
Delete(confirm, ok) ==
    /\ last.cmd # "panic"
    /\ IF selected # None /\ confirm /\ ok
       THEN /\ Exists(selected[1])
            /\ selected[1] \in Trashable
            /\ pending < MaxPending
            /\ trashed' = trashed \cup {selected[1]}
            /\ selected' = None
            /\ pending' = pending + 1
            /\ last' = Handled("Delete", "scan")
       ELSE /\ last' = Handled("Delete", "none")
            /\ UNCHANGED <<selected, pending, trashed>>
    /\ UNCHANGED <<root_path, initial_root_path, treemap, self_total_size, largest_files>>
    /\ UNCHANGED <<arith, lastCall, hit, loop, scanVars>>

AppNext ==
    \/ \E choice \in {None} \cup { Some(p) : p \in Folders } : SelectFolder(choice)
    \/ \E delivered \in BOOLEAN : Scan(delivered)
    \/ \E i \in ClickedRects : CanvasClick(i)
    \/ \E i \in ClickedButtons : ListClick(i)
    \/ DrillDown
    \/ DrillUp
    \/ \E msg \in {"OpenInFinder", "OpenInExplorer"} : Open(msg)
    \/ \E confirm, ok \in BOOLEAN : Delete(confirm, ok)

(***************************************************************************)
(* The specifications.  SpecScan: any set of immediate children, the       *)
(* scanner not yet called, a TreeMap that is built and left alone.         *)
(* SpecLayout: a new TreeMap in either arithmetic, the scanner never       *)
(* called.  SpecApp: the SpaceExplorer that new() returns, in exact        *)
(* arithmetic (1000 and 800 are values of f32).                            *)
(***************************************************************************)
ScanInit ==
    /\ present \in SUBSET TopLevel
    /\ pc = "idle"
    /\ listing = <<>>
    /\ entries = <<>>
    /\ progress = DefaultProgress
    /\ calls = 0
    /\ arith = "exact"
    /\ treemap = TreeMapNew
    /\ lastCall = [op |-> "new", bounds |-> NoBounds, again |-> FALSE]
    /\ hit = NoHit
    /\ loop = NoLoop
    /\ root_path = Home
    /\ initial_root_path = Home
    /\ self_total_size = 0
    /\ largest_files = <<>>
    /\ selected = None
    /\ pending = 0
    /\ last = Handled("new", "none")
    /\ trashed = {}

SpecScan == ScanInit /\ [][ScanNext]_vars

LayoutInit ==
    /\ arith \in {"exact", "rounded"}
    /\ treemap = TreeMapNew
    /\ lastCall = [op |-> "new", bounds |-> NoBounds, again |-> FALSE]
    /\ hit = NoHit
    /\ present = {}
    /\ pc = "idle"
    /\ listing = <<>>
    /\ entries = <<>>
    /\ progress = DefaultProgress
    /\ calls = 0
    /\ loop = NoLoop
    /\ root_path = Home
    /\ initial_root_path = Home
    /\ self_total_size = 0
    /\ largest_files = <<>>
    /\ selected = None
    /\ pending = 0
    /\ last = Handled("new", "none")
    /\ trashed = {}

SpecLayout == LayoutInit /\ [][LayoutNext]_vars

\* a TreeMap in either arithmetic before update_layout is called
LoopInit ==
    /\ loop = NoLoop
    /\ arith \in {"exact", "rounded"}
    /\ treemap = TreeMapNew
    /\ lastCall = [op |-> "new", bounds |-> NoBounds, again |-> FALSE]
    /\ hit = NoHit
    /\ present = {}
    /\ pc = "idle"
    /\ listing = <<>>
    /\ entries = <<>>
    /\ progress = DefaultProgress
    /\ calls = 0
    /\ root_path = Home
    /\ initial_root_path = Home
    /\ self_total_size = 0
    /\ largest_files = <<>>
    /\ selected = None
    /\ pending = 0
    /\ last = Handled("new", "none")
    /\ trashed = {}

SpecLoop == LoopInit /\ [][LoopNext]_vars

\* SpaceExplorer::new
AppInit ==
    /\ root_path = Home
    /\ initial_root_path = Home
    /\ treemap = TreeMapNew
    /\ self_total_size = 0
    /\ largest_files = <<>>
    /\ selected = None
    /\ pending = 0
    /\ last = Handled("new", "none")
    /\ trashed = {}
    /\ arith = "exact"
    /\ lastCall = [op |-> "new", bounds |-> NoBounds, again |-> FALSE]
    /\ hit = NoHit
    /\ loop = NoLoop
    /\ present = {}
    /\ pc = "idle"
    /\ listing = <<>>
    /\ entries = <<>>
    /\ progress = DefaultProgress
    /\ calls = 0

SpecApp == AppInit /\ [][AppNext]_vars

(***************************************************************************)
(* Claims about the scanner, checked under SpecScan.                       *)
(***************************************************************************)
RECURSIVE SumLen(_)
\* the byte lengths of a set of paths, added up
SumLen(S) ==
    IF S = {} THEN 0
    ELSE LET x == CHOOSE y \in S : TRUE IN Node(x).len + SumLen(S \ {x})

EntrySizes == [i \in 1..Len(entries) |-> entries[i].size]

\* C1: on return from scan_directory, progress.total_size equals the sum of
\* size over the entries the invocation returned, a repeated scan included.
C1_TotalSizeIsSumOfEntries ==
    pc = "returned" => progress.total_size = SumSeq(EntrySizes)

\* C2: during a scan and on its return scanned_files <= total_files, also
\* when another process adds or removes immediate children between the
\* count pass and the build pass.
C2_ScannedWithinTotal ==
    pc \in {"counted", "build", "returned"}
        => progress.scanned_files <= progress.total_files

\* C3: a child that disappears after it was listed is dropped from the
\* result and the scan still returns normally; it never aborts because of
\* a per-entry I/O failure.
C3_ScanNeverAborts ==
    pc # "panicked"

\* the regular files beneath directory d that a walk from d can stat: every
\* directory from d down to the file's parent can be read
FilesBeneath(d) ==
    { f \in Paths :
        /\ Len(f) > Len(d)
        /\ SubSeq(f, 1, Len(d)) = d
        /\ Node(f).kind = "file"
        /\ Node(f).stat_ok
        /\ \A k \in Len(d)..(Len(f) - 1) : Node(SubSeq(f, 1, k)).read_ok }

\* C4: a returned entry with is_dir has as size the sum of the byte lengths
\* of the regular files nested at any depth beneath it (directories add 0,
\* descendants that cannot be stat'ed are skipped); a regular file has its
\* own byte length.
C4_EntrySizes ==
    \A i \in 1..Len(entries) :
        LET e == entries[i] IN
        /\ e.is_dir => e.size = SumLen(FilesBeneath(e.path))
        /\ Node(e.path).kind = "file" => e.size = Node(e.path).len

\* a scan returned a directory with files two levels down, and a file
C4_Witness ==
    /\ pc = "returned"
    /\ \E i \in 1..Len(entries) :
          /\ entries[i].is_dir
          /\ entries[i].size = 6
          /\ \E f \in FilesBeneath(entries[i].path) : Len(f) = 3
    /\ \E i \in 1..Len(entries) : ~entries[i].is_dir /\ entries[i].size = 3

(***************************************************************************)
(* Claims about the treemap, checked under SpecLayout.                     *)
(***************************************************************************)
LaidOut == lastCall.op = "update_layout"

\* non-empty entries, positive total size, bounds of positive width and height
NonDegenerate ==
    /\ treemap.entries # <<>>
    /\ SizeSum(treemap.entries) > 0
    /\ FGt(lastCall.bounds.width, Num(0))
    /\ FGt(lastCall.bounds.height, Num(0))

\* C5: after update_layout(bounds), rects is empty whenever entries is empty,
\* or the sizes sum to zero, or bounds has non-positive width or height,
\* whatever rects held before the call.
C5_DegenerateLayoutIsEmpty ==
    (LaidOut /\ ~NonDegenerate) => treemap.rects = <<>>

RECURSIVE SumAreas(_)
SumAreas(rects) ==
    IF rects = <<>> THEN Num(0)
    ELSE FAdd(FMul(Head(rects).bounds.width, Head(rects).bounds.height),
              SumAreas(Tail(rects)))

\* the interiors of two rectangles meet
Overlap(a, b) ==
    /\ FLt(a.x, FAdd(b.x, b.width)) /\ FLt(b.x, FAdd(a.x, a.width))
    /\ FLt(a.y, FAdd(b.y, b.height)) /\ FLt(b.y, FAdd(a.y, a.height))

\* C6: for a non-degenerate layout, in exact arithmetic, the areas of the
\* rectangles sum to bounds.width * bounds.height and no two rectangles
\* overlap in their interiors.
C6_AreaConserved ==
    (LaidOut /\ NonDegenerate /\ arith = "exact") =>
        /\ SumAreas(treemap.rects) = FMul(lastCall.bounds.width, lastCall.bounds.height)
        /\ \A i, j \in 1..Len(treemap.rects) :
              i # j => ~Overlap(treemap.rects[i].bounds, treemap.rects[j].bounds)

\* an exact layout of three rectangles in more than one row
C6_Witness ==
    /\ LaidOut /\ NonDegenerate /\ arith = "exact"
    /\ Len(treemap.rects) = 3
    /\ \E i, j \in 1..Len(treemap.rects) :
          treemap.rects[i].bounds.y # treemap.rects[j].bounds.y

\* the sizes of the rectangles that share the row of rectangle i, added up
RowSizeOf(rects, i) ==
    SizeSum(SelectSeq([k \in 1..Len(rects) |-> rects[k].entry],
                      LAMBDA e : \E k \in 1..Len(rects) :
                          /\ rects[k].entry = e
                          /\ rects[k].bounds.y = rects[i].bounds.y))

\* C7: for a non-degenerate layout, in exact arithmetic, every rectangle has
\* width * height = entry.size / total_size * bounds.width * bounds.height,
\* its height being row_size / total_size * bounds.height and its width
\* entry.size / row_size * bounds.width.
C7_AreaProportional ==
    (LaidOut /\ NonDegenerate /\ arith = "exact") =>
        \A i \in 1..Len(treemap.rects) :
            LET r == treemap.rects[i]
                total == Num(SizeSum(treemap.entries))
                row_size == Num(RowSizeOf(treemap.rects, i))
                size == Num(r.entry.size)
                b == lastCall.bounds
            IN  /\ FMul(r.bounds.width, r.bounds.height)
                     = FMul(FDiv(size, total), FMul(b.width, b.height))
                /\ r.bounds.height = FMul(FDiv(row_size, total), b.height)
                /\ r.bounds.width = FMul(FDiv(size, row_size), b.width)

\* an exact layout with a row of two rectangles of different sizes above
\* another row
C7_Witness ==
    /\ LaidOut /\ NonDegenerate /\ arith = "exact"
    /\ \E i, j, k \in 1..Len(treemap.rects) :
          /\ treemap.rects[i].bounds.y = treemap.rects[j].bounds.y
          /\ treemap.rects[i].entry.size > treemap.rects[j].entry.size
          /\ treemap.rects[k].bounds.y # treemap.rects[i].bounds.y

\* the first rectangle, in emission order, that contains the position
FirstContaining(rects, position) ==
    LET S == { i \in 1..Len(rects) : Contains(rects[i], position) }
    IN  IF S = {} THEN <<>>
        ELSE <<rects[CHOOSE i \in S : \A j \in S : i <= j]>>

\* C8: find_item_at returns the first rectangle in emission order whose
\* bounds contain the point, edges included, and None when there is none;
\* the centre of every rectangle placed by update_layout resolves through
\* find_item_at to the item with that entry's path.
C8_HitTest ==
    /\ lastCall.op = "find_item_at"
          => hit.found = FirstContaining(treemap.rects, hit.position)
    /\ \A i \in 1..Len(treemap.rects) :
          LET found == find_item_at(treemap, Centre(treemap.rects[i].bounds))
          IN  found # <<>> /\ found[1].entry.path = treemap.rects[i].entry.path

\* the entries of positive size, in the order of the sorted list
Sized(es) == SelectSeq(SortDescending(es), LAMBDA e : e.size > 0)

\* C9: with bounds.width >= bounds.height > 0 and a positive total size
\* (600, 300 and 100 bytes into 1000 by 100), update_layout places every
\* entry of positive size in one row: y = bounds.y, height = bounds.height,
\* x advancing from bounds.x in descending order of size, and, in exact
\* arithmetic, width = entry.size / total_size * bounds.width, the row
\* covering bounds.
C9_SingleRow ==
    (LaidOut /\ NonDegenerate /\ FGe(lastCall.bounds.width, lastCall.bounds.height)) =>
        LET rects == treemap.rects
            b == lastCall.bounds
            total == Num(SizeSum(treemap.entries))
        IN  /\ [i \in 1..Len(rects) |-> rects[i].entry] = Sized(treemap.entries)
            /\ \A i \in 1..Len(rects) :
                  /\ rects[i].bounds.y = b.y
                  /\ rects[i].bounds.height = b.height
                  /\ rects[i].bounds.x =
                        IF i = 1 THEN b.x
                        ELSE FAdd(rects[i - 1].bounds.x, rects[i - 1].bounds.width)
                  /\ \A j \in 1..Len(rects) :
                        i # j => ~Overlap(rects[i].bounds, rects[j].bounds)
                  /\ arith = "exact" =>
                        rects[i].bounds.width
                            = FMul(FDiv(Num(rects[i].entry.size), total), b.width)
            /\ arith = "exact" =>
                  FAdd(rects[Len(rects)].bounds.x, rects[Len(rects)].bounds.width)
                      = FAdd(b.x, b.width)

\* C10: update_layout called twice in succession with the same entries and
\* the same bounds leaves rects after the second call as after the first.
C10_Idempotent ==
    [][(lastCall'.op = "update_layout" /\ lastCall'.again)
            => treemap'.rects = treemap.rects]_vars

\* a layout of two or more rectangles computed twice in succession
C10_Witness ==
    /\ LaidOut /\ lastCall.again
    /\ Len(treemap.rects) >= 2

(***************************************************************************)
(* Claims about the row loop, checked under SpecLoop.                      *)
(***************************************************************************)
\* the two renderings of update_layout agree
LoopAgreesWithLayout ==
    loop.pc = "done" =>
        loop.rects = update_layout([TreeMapNew EXCEPT !.entries = loop.entries],
                                   loop.bounds).rects

\* calculate_row gives a non-empty list a row of at least one entry
RowNeverEmpty ==
    (loop.pc = "loop" /\ loop.remaining_entries # <<>>) =>
        calculate_row(loop.remaining_entries, loop.remaining_area,
                      AsF32(SizeSum(loop.remaining_entries))).row # <<>>

\* an iteration of the row loop leaves fewer entries than it found
LoopShrinks ==
    (loop.pc = "loop" /\ loop'.pc = "loop") =>
        Len(loop'.remaining_entries) < Len(loop.remaining_entries)

\* the while loop has run no more iterations than there are entries
LoopBounded ==
    loop.pc # "idle" => loop.iterations <= Len(loop.entries)

\* C13: update_layout terminates for every input: calculate_row returns a
\* row of at least one entry for a non-empty list, so every iteration of
\* the row loop strictly shrinks the remaining entries; the loop runs at
\* most once for each entry and is left when the entries are exhausted or
\* the remaining rectangle has no height or width.
C13_Terminates ==
    /\ []RowNeverEmpty
    /\ [][LoopShrinks]_vars
    /\ []LoopBounded
    /\ [](loop.pc = "done" =>
            \/ loop.remaining_entries = <<>>
            \/ ~FGt(loop.remaining_area.height, Num(0))
            \/ ~FGt(loop.remaining_area.width, Num(0)))

\* the loop was left after more than one row, no entry remaining
C13_Witness ==
    /\ loop.pc = "done"
    /\ loop.iterations = 2
    /\ loop.remaining_entries = <<>>
    /\ \E i, j \in 1..Len(loop.rects) :
          loop.rects[i].bounds.y # loop.rects[j].bounds.y

(***************************************************************************)
(* Claims about the treemap, checked under SpecLayout, continued.          *)
(***************************************************************************)
\* where entry e stands in es
IndexOf(es, e) == CHOOSE k \in 1..Len(es) : es[k] = e

\* C12: update_layout places entries in descending order of size with ties
\* kept in their original order: along the rects it emitted sizes never
\* increase, and two entries of equal size appear in the order they had
\* in entries.
C12_SortedStable ==
    (LaidOut /\ treemap.entries # <<>>) =>
        LET rects == treemap.rects
            es == treemap.entries
        IN  /\ \A i \in 1..Len(rects) : \E k \in 1..Len(es) : es[k] = rects[i].entry
            /\ \A i, j \in 1..Len(rects) :
                  i < j =>
                      /\ rects[i].entry.size >= rects[j].entry.size
                      /\ rects[i].entry.size = rects[j].entry.size
                            => IndexOf(es, rects[i].entry) < IndexOf(es, rects[j].entry)

\* three rectangles, two of them of one size, for entries that were given
\* in ascending order
C12_Witness ==
    /\ LaidOut
    /\ Len(treemap.entries) = 3
    /\ Len(treemap.rects) = 3
    /\ treemap.entries[1].size < treemap.entries[2].size
    /\ treemap.entries[2].size = treemap.entries[3].size

\* a + b of two finite values without rounding
ExactAdd(a, b) == Ratio(a[1] * b[2] + b[1] * a[2], a[2] * b[2])

RECURSIVE ExactSum(_)
ExactSum(s) == IF s = <<>> THEN Num(0) ELSE ExactAdd(Head(s), ExactSum(Tail(s)))

\* the heights of the rows of rects, a row being the rectangles of one y
RowHeights(rects) ==
    LET firsts == { i \in 1..Len(rects) :
                      \A j \in 1..(i - 1) : rects[j].bounds.y # rects[i].bounds.y }
        kept == SelectSeq([i \in 1..Len(rects) |-> i], LAMBDA i : i \in firsts)
    IN  [k \in 1..Len(kept) |-> rects[kept[k]].bounds.height]

\* C14: every rectangle emitted by update_layout has strictly positive
\* width and height and lies inside the input bounds (bounds.x <= x,
\* x + width <= bounds.x + bounds.width, bounds.y <= y, y + height <=
\* bounds.y + bounds.height); an entry of size 0 is never emitted, and the
\* heights of the rows placed never sum to more than bounds.height.
C14_RectsInsideBounds ==
    (LaidOut /\ treemap.entries # <<>>) =>
        LET rects == treemap.rects
            b == lastCall.bounds
        IN  /\ \A i \in 1..Len(rects) :
                  LET r == rects[i].bounds
                  IN  /\ FGt(r.width, Num(0))
                      /\ FGt(r.height, Num(0))
                      /\ FLe(b.x, r.x)
                      /\ FLe(ExactAdd(r.x, r.width), ExactAdd(b.x, b.width))
                      /\ FLe(b.y, r.y)
                      /\ FLe(ExactAdd(r.y, r.height), ExactAdd(b.y, b.height))
                      /\ rects[i].entry.size > 0
            /\ rects # <<>> => FLe(ExactSum(RowHeights(rects)), b.height)

(***************************************************************************)
(* Claims about the application, checked under SpecApp.                    *)
(***************************************************************************)
\* Message::Scan was handled last, for a root that exists, and returned
ScanHandled == last.msg = "Scan" /\ last.cmd = "none" /\ Exists(root_path)

\* the entries of the scan that was handled last that are no directories
ScannedFiles == SelectSeq(scan_directory(root_path), LAMBDA e : ~e.is_dir)

\* C11: after a Scan message is handled for an existing root, largest_files
\* contains only entries of that scan with is_dir = false, each once, is
\* sorted by descending size, has length min(10, number of non-directory
\* entries), and every non-directory entry left out is no larger than any
\* entry included.
C11_LargestFiles ==
    ScanHandled =>
        LET files == ScannedFiles
            In(e) == \E i \in 1..Len(largest_files) : largest_files[i] = e
        IN  /\ \A i \in 1..Len(largest_files) :
                  /\ ~largest_files[i].is_dir
                  /\ \E k \in 1..Len(files) : files[k] = largest_files[i]
                  /\ \A j \in 1..Len(largest_files) :
                        i # j => largest_files[i].path # largest_files[j].path
            /\ \A i \in 1..(Len(largest_files) - 1) :
                  largest_files[i].size >= largest_files[i + 1].size
            /\ Len(largest_files) = IF Len(files) < 10 THEN Len(files) ELSE 10
            /\ \A k \in 1..Len(files) :
                  ~In(files[k]) =>
                      \A i \in 1..Len(largest_files) :
                          files[k].size <= largest_files[i].size

\* a scan of eleven files and a directory that is larger than any of them:
\* ten files are listed and the file left out is as large as the last listed
C11_Witness ==
    /\ ScanHandled
    /\ Len(ScannedFiles) = 11
    /\ Len(largest_files) = 10
    /\ \E k \in 1..Len(treemap.entries) :
          /\ treemap.entries[k].is_dir
          /\ treemap.entries[k].size > largest_files[1].size
    /\ \E k \in 1..Len(ScannedFiles) :
          /\ \A i \in 1..10 : largest_files[i] # ScannedFiles[k]
          /\ ScannedFiles[k].size = largest_files[10].size

\* C15: handling DrillUp always clears the selected path; it moves root_path
\* to its parent and triggers a re-scan only when root_path differs from
\* initial_root_path and has a parent, and otherwise leaves root_path,
\* treemap, total_size and largest_files unchanged and triggers no scan.
C15_DrillUp ==
    [][last'.msg = "DrillUp" =>
          /\ selected' = None
          /\ IF root_path # initial_root_path /\ Parent(root_path) # None
             THEN /\ Some(root_path') = Parent(root_path)
                  /\ last'.cmd = "scan"
                  /\ pending' = pending + 1
             ELSE /\ UNCHANGED <<root_path, treemap, self_total_size, largest_files>>
                  /\ last'.cmd = "none"
                  /\ pending' = pending]_vars

\* DrillUp moved from a folder below the initial root back to it
C15_Witness ==
    /\ last = Handled("DrillUp", "scan")
    /\ root_path = initial_root_path
    /\ selected = None

\* p is q or lies beneath q
Within(p, q) == Len(q) <= Len(p) /\ SubSeq(p, 1, Len(q)) = q

\* C16: after any sequence of SelectFolder, Select, Scan, DrillDown, DrillUp
\* and Delete messages, root_path is initial_root_path or a descendant of
\* it.
C16_RootWithinInitial ==
    Within(root_path, initial_root_path)

\* C17: whenever the selected path is present it is the path of an entry of
\* the latest scan of the current root_path, an item shown in the current
\* treemap or largest-files list, and so never the current root itself or
\* an item of a folder viewed before.
C17_SelectedInView ==
    selected # None =>
        /\ selected[1] # root_path
        /\ Parent(selected[1]) = Some(root_path)
        /\ \/ \E k \in 1..Len(treemap.entries) : treemap.entries[k].path = selected[1]
           \/ \E k \in 1..Len(largest_files) : largest_files[k].path = selected[1]

====
